---- MODULE Spec2Model ----
(***************************************************************************)
(* A model of class bytefluo (src/bytefluo.h): a cursor over a byte range  *)
(* [buf_begin, buf_end) of a buffer it does not own, with byte-order aware *)
(* scalar reads, raw reads and three seeks.                                *)
(*                                                                         *)
(* Pointers, size_t and ptrdiff_t are WordBits wide; arithmetic on them    *)
(* wraps modulo 2^WordBits.  A long is as wide as they are (ILP32, LP64)   *)
(* or narrower (LLP64), as the build has it: long_bits is fixed when the   *)
(* run begins.  A byte has CHAR_BIT = 8 bits.  A scalar wider than TLC's   *)
(* integers is a sequence of bytes, least significant first.               *)
(*                                                                         *)
(* The caller owns one array of DataLen bytes at address Base and passes   *)
(* pointers into it, or null.  A load outside that array is undefined      *)
(* behaviour: the call either terminates the process or returns with the   *)
(* bytes it happened to find, and both outcomes are states of the model.   *)
(* A run is followed up to its first such call: what the members mean      *)
(* after it (a cursor below buf_begin, a tellg() above size()) is no       *)
(* longer tied to the source's arithmetic.                                 *)
(***************************************************************************)
EXTENDS Integers, Sequences, FiniteSets

\* ---------------------------------------------------------------- bounds
\* width in bits of a pointer, of size_t and of ptrdiff_t
WordBits == 5
\* bits by which a long is narrower than a pointer on a build where it is
LongDeficit == 2
\* address of raw_data[0], the first byte of the caller's array
Base == 3
\* number of bytes of the caller's array
DataLen == 9
\* number of bytes of the range the caller with two cursors uses
CopyLen == 2
\* the most reads the caller chains in one statement
MaxChain == 3

\* ------------------------------------------------------------- constants
CHAR_BIT == 8

big == 0
little == 1
\* an enumerator value that is neither big nor little
bad_byte_order == 99
\* sizeof(raw_data) of the tests
raw_data_len == 7

null_begin_non_null_end == 1
null_end_non_null_begin == 2
end_precedes_begin == 3
invalid_byte_order == 4
attempt_to_read_past_end == 5
attempt_to_seek_after_end == 6
attempt_to_seek_before_beginning == 7

\* ------------------------------------------------------- machine integers
Pow2(n) == 2 ^ n
WordMod == Pow2(WordBits)
SizeMax == WordMod - 1
PtrdiffMax == Pow2(WordBits - 1) - 1
PtrdiffMin == 0 - Pow2(WordBits - 1)
Addr == 0 .. SizeMax

\* static_cast<size_t>(d), and the bits of any value kept in one word
ToSize(d) == d % WordMod
\* static_cast<ptrdiff_t>(n): the word n read as signed
ToSigned(n) == IF ToSize(n) > PtrdiffMax THEN ToSize(n) - WordMod ELSE ToSize(n)
\* p + n and p - n on a pointer
PtrAdd(p, n) == ToSize(p + n)
\* a - b on two pointers, a ptrdiff_t
PtrDiff(a, b) == ToSigned(a - b)

\* ------------------------------------------------------------ the buffer
\* the addresses of the caller's array; Base + DataLen is one past its end
DataAddr == Base .. (Base + DataLen - 1)
\* the array's contents, one of a few images (row 1 is the tests' raw_data)
NumImages == 3
Image(s, i) ==
    CASE s = 1 -> (153 + 17 * i) % Pow2(CHAR_BIT)
      [] s = 2 -> (1 + i) % Pow2(CHAR_BIT)
      [] OTHER -> (128 + 127 * i) % Pow2(CHAR_BIT)

VARIABLES
    long_bits,      \* width in bits of a long in this build (never written)
    image,          \* which Image the caller's array holds (never written)
    buf_begin,      \* bytefluo::buf_begin
    buf_end,        \* bytefluo::buf_end
    cursor,         \* bytefluo::cursor
    buf_byte_order, \* bytefluo::buf_byte_order
    fate,           \* "running"; "no cursor" after a constructor threw;
                    \* after a load outside the caller's array,
                    \* "terminated" (the process died in the call) or
                    \* "undefined" (the call returned): followed no further
    op,             \* the last call: its name and arguments
    pre,            \* the cursor's four members when the last call began
                    \* (a constructor: when its body began)
    err,            \* id of the exception the last call threw, 0 if none
    ret,            \* what the last call returned (a seek's, size()'s or
                    \* tellg()'s size_t, eos()'s bool), else 0
    out,            \* the caller's scalar after operator>>, <<>> if not assigned;
                    \* a set_byte_order right after the operator>> has no
                    \* access to it and leaves it
    dest,           \* the caller's dest after read(dest, len), <<>> if not written
    accessed,       \* addresses the last call loaded a byte from
    other           \* the four members of a second cursor of the caller

vars == <<long_bits, image, buf_begin, buf_end, cursor, buf_byte_order, fate,
          op, pre, err, ret, out, dest, accessed, other>>

\* ------------------------------------------------------------------ long
\* the widths a long may have: a pointer's, or LongDeficit bits fewer
LongWidths == {WordBits, WordBits - LongDeficit}
\* LONG_MAX and LONG_MIN of this build
LongMax == Pow2(long_bits - 1) - 1
LongMin == 0 - Pow2(long_bits - 1)
\* static_cast<long>(d) for a ptrdiff_t d: the low long_bits bits of d, signed
ToLong(d) ==
    IF (d % Pow2(long_bits)) > LongMax THEN (d % Pow2(long_bits)) - Pow2(long_bits)
                                        ELSE d % Pow2(long_bits)

\* *a for an address a; outside the caller's array it yields some byte j
Load(a, j) == IF a \in DataAddr THEN Image(image, a - Base) ELSE j
\* the bytes a load outside the caller's array may yield
Junk == {0, Pow2(CHAR_BIT) - 1}

\* ------------------------------------------------------- scalars as bytes
RECURSIVE BitOr(_, _, _)
BitOr(a, b, bits) ==
    IF bits = 0 THEN 0
    ELSE (IF (a % 2 = 1) \/ (b % 2 = 1) THEN 1 ELSE 0)
         + 2 * BitOr(a \div 2, b \div 2, bits - 1)

\* uintK_t(b) for a byte b, K = 8 * n
Unsigned(b, n) == [i \in 1 .. n |-> IF i = 1 THEN b ELSE 0]
\* v converted to an unsigned type of n bytes (truncation or zero extension)
Resize(v, n) == [i \in 1 .. n |-> IF i <= Len(v) THEN v[i] ELSE 0]
\* v << bits, bits a multiple of CHAR_BIT, in v's own type
Shl(v, bits) ==
    [i \in 1 .. Len(v) |->
        IF i > bits \div CHAR_BIT THEN v[i - bits \div CHAR_BIT] ELSE 0]
\* v | w for two values of one type
Or(v, w) == [i \in 1 .. Len(v) |-> BitOr(v[i], w[i], CHAR_BIT)]

RECURSIVE Carry(_, _, _)
Carry(v, w, i) ==
    IF i = 0 THEN 0 ELSE (v[i] + w[i] + Carry(v, w, i - 1)) \div Pow2(CHAR_BIT)
\* v + w modulo 2^(8 * Len(v))
Add(v, w) ==
    [i \in 1 .. Len(v) |-> (v[i] + w[i] + Carry(v, w, i - 1)) % Pow2(CHAR_BIT)]
\* ~v + 1: the magnitude of a negative two's-complement value
Negate(v) ==
    Add([i \in 1 .. Len(v) |-> Pow2(CHAR_BIT) - 1 - v[i]], Unsigned(1, Len(v)))

\* Scalar that keeps the unsigned value whatever the caller's type
Scalar_zero_extend(v, n, signed) == [neg |-> FALSE, mag |-> Resize(v, n)]

\* scalar_type(v): v converted to the caller's integer type of n bytes; a
\* value is its sign and its magnitude, the magnitude as n bytes
Scalar(v, n, signed) ==
    LET u == Resize(v, n) IN
    IF signed /\ u[n] >= Pow2(CHAR_BIT - 1)
    THEN [neg |-> TRUE, mag |-> Negate(u)]
    ELSE [neg |-> FALSE, mag |-> u]

\* ------------------------------------------------------------ scalar reads
\* sizeof(int): uint16_t operands of << and | are promoted to int
IntBytes == 4

\* cursor[k], for impl::read's parameter cursor
At(c, k, j) == Load(PtrAdd(c, k), j)

\* PastEnd with the bound off by one: buf_end - cursor < n - 1
PastEnd_off_by_one(n) == PtrDiff(buf_end, cursor) < n - 1

\* buf_end - cursor < n, the test that opens each impl<scalar_type, n>::read
PastEnd(n) == PtrDiff(buf_end, cursor) < n

\* Decode1 with the increment before the load: scalar_type(*++cursor)
Decode1_preincrement(c, bo, signed, j) ==
    Scalar(Unsigned(At(c, 1, j), 1), 1, signed)

\* impl<scalar_type, 1>::read: scalar_type(*cursor++)
Decode1(c, bo, signed, j) == Scalar(Unsigned(At(c, 0, j), 1), 1, signed)

\* impl<scalar_type, 2>::read
Decode2(c, bo, signed, j) ==
    LET U16(k) == Resize(Unsigned(At(c, k, j), 2), IntBytes) IN
    IF bo = little
    THEN Scalar(Or(Shl(U16(1), CHAR_BIT), U16(0)), 2, signed)
    ELSE Scalar(Or(Shl(U16(0), CHAR_BIT), U16(1)), 2, signed)

\* o3 | o2 | o1 | o0 of impl<scalar_type, 4> and impl<scalar_type, 8>: the
\* uint32_t with cursor[k0] as its most significant byte and cursor[k3] as
\* its least significant one
Word32(c, k0, k1, k2, k3, j) ==
    LET U32(k) == Unsigned(At(c, k, j), 4)
        o3 == Shl(U32(k0), CHAR_BIT * 3)
        o2 == Shl(U32(k1), CHAR_BIT * 2)
        o1 == Shl(U32(k2), CHAR_BIT)
        o0 == U32(k3)
    IN  Or(Or(Or(o3, o2), o1), o0)

\* impl<scalar_type, 4>::read
Decode4(c, bo, signed, j) ==
    IF bo = little
    THEN Scalar(Word32(c, 3, 2, 1, 0, j), 4, signed)
    ELSE Scalar(Word32(c, 0, 1, 2, 3, j), 4, signed)

\* Decode8 with the two halves the wrong way round in the little branch
Decode8_halves_swapped(c, bo, signed, j) ==
    IF bo = little
    THEN LET h == Word32(c, 3, 2, 1, 0, j)
             l == Word32(c, 7, 6, 5, 4, j)
         IN  Scalar(Or(Shl(Resize(h, 8), CHAR_BIT * 4), Resize(l, 8)), 8, signed)
    ELSE LET h == Word32(c, 0, 1, 2, 3, j)
             l == Word32(c, 4, 5, 6, 7, j)
         IN  Scalar(Or(Shl(Resize(h, 8), CHAR_BIT * 4), Resize(l, 8)), 8, signed)

\* impl<scalar_type, 8>::read
Decode8(c, bo, signed, j) ==
    IF bo = little
    THEN LET h == Word32(c, 7, 6, 5, 4, j)
             l == Word32(c, 3, 2, 1, 0, j)
         IN  Scalar(Or(Shl(Resize(h, 8), CHAR_BIT * 4), Resize(l, 8)), 8, signed)
    ELSE LET h == Word32(c, 0, 1, 2, 3, j)
             l == Word32(c, 4, 5, 6, 7, j)
         IN  Scalar(Or(Shl(Resize(h, 8), CHAR_BIT * 4), Resize(l, 8)), 8, signed)

\* impl<scalar_type, sizeof(scalar_type)>: the specialisation for n bytes
Decode(n, c, bo, signed, j) ==
    CASE n = 1 -> Decode1(c, bo, signed, j)
      [] n = 2 -> Decode2(c, bo, signed, j)
      [] n = 4 -> Decode4(c, bo, signed, j)
      [] n = 8 -> Decode8(c, bo, signed, j)

\* ------------------------------------------------------------- validation
Null == 0

\* validate comparing end with begin before it tests either for null
validate_compare_first(begin, end) ==
    IF end < begin THEN end_precedes_begin
    ELSE IF begin = Null /\ end # Null THEN null_begin_non_null_end
    ELSE IF begin # Null /\ end = Null THEN null_end_non_null_begin
    ELSE 0

\* bytefluo::validate: the id of the exception it throws, 0 if it returns
validate(begin, end) ==
    IF begin = Null /\ end # Null THEN null_begin_non_null_end
    ELSE IF begin # Null /\ end = Null THEN null_end_non_null_begin
    ELSE IF end < begin THEN end_precedes_begin
    ELSE 0

\* bo != big && bo != little
BadOrder(bo) == bo # big /\ bo # little

\* RawPastEnd that also refuses a read up to the very end
RawPastEnd_inclusive(len) == PtrDiff(buf_end, cursor) <= ToSigned(len)
\* SeekBeginBad and SeekEndBad comparing as ptrdiff_t instead of size_t
SeekBeginBad_signed(pos) == ToSigned(pos) > PtrDiff(buf_end, buf_begin)
SeekEndBad_signed(pos) == ToSigned(pos) > PtrDiff(buf_end, buf_begin)
\* SeekBackBad moving the cursor first and comparing it with buf_begin after
SeekBackBad_add_first(pos) == PtrAdd(cursor, pos) < buf_begin

\* the range tests of read(dest, len) and of the three seeks
RawPastEnd(len) == PtrDiff(buf_end, cursor) < ToSigned(len)
SeekBeginBad(pos) == pos > ToSize(PtrDiff(buf_end, buf_begin))
SeekEndBad(pos) == pos > ToSize(PtrDiff(buf_end, buf_begin))
SeekBackBad(pos) == pos < ToLong(PtrDiff(buf_begin, cursor))
SeekForwardBad(pos) == pos > ToLong(PtrDiff(buf_end, cursor))

\* tellg() measured from buf_end instead of buf_begin
tellg_from_end == ToSize(PtrDiff(buf_end, cursor))

\* ------------------------------------------------------------ introspection
eos == cursor = buf_end
size == ToSize(PtrDiff(buf_end, buf_begin))
tellg == ToSize(PtrDiff(cursor, buf_begin))

\* -------------------------------------------------------------- one call
Members == [buf_begin |-> buf_begin, buf_end |-> buf_end, cursor |-> cursor,
            buf_byte_order |-> buf_byte_order]

\* A call named name with arguments x, y leaves the members m, throws e (0:
\* returns), returns r, leaves o in the caller's scalar and d in the caller's
\* dest, and loads the bytes at acc.  A load outside the caller's array is
\* undefined behaviour: the process is terminated in the call, or the call
\* returns with whatever bytes it found there.
Call(name, x, y, e, m, r, o, d, acc) ==
    /\ fate = "running"
    /\ op' = [name |-> name, x |-> x, y |-> y, z |-> 0]
    /\ pre' = Members
    /\ err' = e
    /\ buf_begin' = m.buf_begin
    /\ buf_end' = m.buf_end
    /\ cursor' = m.cursor
    /\ buf_byte_order' = m.buf_byte_order
    /\ ret' = r
    /\ out' = o
    /\ dest' = d
    /\ accessed' = acc
    /\ fate' \in (IF acc \subseteq DataAddr THEN {"running"}
                                           ELSE {"terminated", "undefined"})
    /\ UNCHANGED <<long_bits, image, other>>

\* the junk bytes to consider for a call that loads the bytes at acc
JunkAt(acc) == IF acc \subseteq DataAddr THEN {0} ELSE Junk

\* a throw that first puts the cursor back to buf_begin
Throw_rewinds(name, x, y, e) ==
    Call(name, x, y, e, [Members EXCEPT !.cursor = buf_begin], 0, <<>>, <<>>, {})

Throw(name, x, y, e) == Call(name, x, y, e, Members, 0, <<>>, <<>>, {})

\* set_data_range storing the new range before validate(begin, end)
set_data_range_assign_first(begin, end) ==
    Call("set_data_range", begin, end, validate(begin, end),
         [Members EXCEPT !.cursor = begin, !.buf_begin = begin, !.buf_end = end],
         0, <<>>, <<>>, {})

\* set_data_range putting the byte order back to big
set_data_range_resets_order(begin, end) ==
    IF validate(begin, end) # 0
    THEN Throw("set_data_range", begin, end, validate(begin, end))
    ELSE Call("set_data_range", begin, end, 0,
              [buf_begin |-> begin, buf_end |-> end, cursor |-> begin,
               buf_byte_order |-> big],
              0, <<>>, <<>>, {})

\* set_data_range leaving the cursor where it was
set_data_range_keeps_cursor(begin, end) ==
    IF validate(begin, end) # 0
    THEN Throw("set_data_range", begin, end, validate(begin, end))
    ELSE Call("set_data_range", begin, end, 0,
              [Members EXCEPT !.buf_begin = begin, !.buf_end = end],
              0, <<>>, <<>>, {})

\* ------------------------------------------------------------- operations
\* A constructor makes the cursor the model follows from now on, in place of
\* the one it followed (or of none): its member initialisers leave m, then
\* its body returns (e = 0) or throws e, and then there is no cursor.
Construct(name, x, y, z, e, m) ==
    /\ fate \in {"running", "no cursor"}
    /\ op' = [name |-> name, x |-> x, y |-> y, z |-> z]
    /\ pre' = m
    /\ err' = e
    /\ buf_begin' = m.buf_begin
    /\ buf_end' = m.buf_end
    /\ cursor' = m.cursor
    /\ buf_byte_order' = m.buf_byte_order
    /\ ret' = 0
    /\ out' = <<>>
    /\ dest' = <<>>
    /\ accessed' = {}
    /\ fate' = IF e = 0 THEN "running" ELSE "no cursor"
    /\ UNCHANGED <<long_bits, image, other>>

\* bytefluo() defaulting to little-endian
bytefluo_default_little ==
    Construct("bytefluo()", 0, 0, 0, 0,
              [buf_begin |-> Null, buf_end |-> Null, cursor |-> Null,
               buf_byte_order |-> little])

\* bytefluo(begin, end, bo) testing the byte order before the range
bytefluo_order_first(begin, end, bo) ==
    Construct("bytefluo", begin, end, bo,
              IF BadOrder(bo) THEN invalid_byte_order
              ELSE validate(begin, end),
              [buf_begin |-> begin, buf_end |-> end, cursor |-> begin,
               buf_byte_order |-> bo])

\* bytefluo(begin, end, bo) that tests bo and then reads as big-endian anyway
bytefluo_big_only(begin, end, bo) ==
    Construct("bytefluo", begin, end, bo,
              IF validate(begin, end) # 0 THEN validate(begin, end)
              ELSE IF BadOrder(bo) THEN invalid_byte_order
              ELSE 0,
              [buf_begin |-> begin, buf_end |-> end, cursor |-> begin,
               buf_byte_order |-> big])

\* bytefluo(begin, end, bo) initialising cursor with end
bytefluo_cursor_at_end(begin, end, bo) ==
    Construct("bytefluo", begin, end, bo,
              IF validate(begin, end) # 0 THEN validate(begin, end)
              ELSE IF BadOrder(bo) THEN invalid_byte_order
              ELSE 0,
              [buf_begin |-> begin, buf_end |-> end, cursor |-> end,
               buf_byte_order |-> bo])

\* bytefluo::bytefluo()
bytefluo_default ==
    Construct("bytefluo()", 0, 0, 0, 0,
              [buf_begin |-> Null, buf_end |-> Null, cursor |-> Null,
               buf_byte_order |-> big])

\* bytefluo(begin, end, bo) accepting any value of bo
bytefluo_any_order(begin, end, bo) ==
    Construct("bytefluo", begin, end, bo, validate(begin, end),
              [buf_begin |-> begin, buf_end |-> end, cursor |-> begin,
               buf_byte_order |-> bo])

\* bytefluo::bytefluo(begin, end, bo)
bytefluo(begin, end, bo) ==
    Construct("bytefluo", begin, end, bo,
              IF validate(begin, end) # 0 THEN validate(begin, end)
              ELSE IF BadOrder(bo) THEN invalid_byte_order
              ELSE 0,
              [buf_begin |-> begin, buf_end |-> end, cursor |-> begin,
               buf_byte_order |-> bo])

\* bytefluo::set_data_range(begin, end)
set_data_range(begin, end) ==
    IF validate(begin, end) # 0
    THEN Throw("set_data_range", begin, end, validate(begin, end))
    ELSE Call("set_data_range", begin, end, 0,
              [Members EXCEPT !.cursor = begin, !.buf_begin = begin,
                              !.buf_end = end],
              0, <<>>, <<>>, {})

\* the caller's scalar, if the last call was the operator>> that assigned it
LastScalar == IF op.name = "operator>>" THEN out ELSE <<>>

\* set_byte_order(bo) storing bo without testing it
set_byte_order_unchecked(bo) ==
    Call("set_byte_order", bo, 0, 0,
         [Members EXCEPT !.buf_byte_order = bo], 0, LastScalar, <<>>, {})

\* bytefluo::set_byte_order(bo)
set_byte_order(bo) ==
    IF BadOrder(bo)
    THEN Call("set_byte_order", bo, 0, invalid_byte_order, Members,
              0, LastScalar, <<>>, {})
    ELSE Call("set_byte_order", bo, 0, 0,
              [Members EXCEPT !.buf_byte_order = bo], 0, LastScalar, <<>>, {})

\* bytefluo::operator>>(scalar_type & out), sizeof(scalar_type) = n; signed is
\* 1 for a signed scalar_type and 0 for an unsigned one
read_scalar(n, signed) ==
    IF PastEnd(n)
    THEN Throw("operator>>", n, signed, attempt_to_read_past_end)
    ELSE \E j \in JunkAt({PtrAdd(cursor, k) : k \in 0 .. (n - 1)}) :
         Call("operator>>", n, signed, 0,
              [Members EXCEPT !.cursor = PtrAdd(cursor, n)],
              0, Decode(n, cursor, buf_byte_order, signed = 1, j), <<>>,
              {PtrAdd(cursor, k) : k \in 0 .. (n - 1)})

\* buf >> v1 >> ... >> vn from the i-th read on, each vk an unsigned scalar
\* of ws[k] bytes: operator>> returns *this, so each read runs on the cursor
\* the one before it left, and a read that throws ends the statement.  r
\* holds what the reads before the i-th left: the cursor, v1..v(i-1) in vals
\* and the addresses they loaded.  In the result vals holds v1..vn, <<>> for
\* one not assigned.
RECURSIVE chain_from(_, _, _, _)
chain_from(ws, i, r, j) ==
    IF i > Len(ws)
    THEN r
    ELSE IF PtrDiff(buf_end, r.cursor) < ws[i]
    THEN [r EXCEPT !.err = attempt_to_read_past_end,
                   !.vals = [k \in 1 .. Len(ws) |->
                                IF k < i THEN r.vals[k] ELSE <<>>]]
    ELSE chain_from(ws, i + 1,
             [cursor |-> PtrAdd(r.cursor, ws[i]),
              err |-> 0,
              vals |-> Append(r.vals, Decode(ws[i], r.cursor, buf_byte_order,
                                             FALSE, j)),
              acc |-> r.acc \cup {PtrAdd(r.cursor, k) : k \in 0 .. (ws[i] - 1)}],
             j)

\* the statement buf >> v1 >> ... >> vn run with junk byte j
chain(ws, j) ==
    chain_from(ws, 1, [cursor |-> cursor, err |-> 0, vals |-> <<>>, acc |-> {}], j)

\* a chain that tests the room for all its reads before the first one
chained_read_all_or_nothing(ws) ==
    \E r \in {chain(ws, 0)} :
        IF r.err # 0
        THEN Call("chained_read", ws, 0, r.err, Members, 0,
                  [k \in 1 .. Len(ws) |-> <<>>], <<>>, {})
        ELSE Call("chained_read", ws, 0, 0,
                  [Members EXCEPT !.cursor = r.cursor], 0, r.vals, <<>>, r.acc)

\* the statement buf >> v1 >> ... >> vn; out holds v1..vn after it
chained_read(ws) ==
    \E r0 \in {chain(ws, 0)} :
        \E r \in (IF r0.acc \subseteq DataAddr
                  THEN {r0} ELSE {chain(ws, j) : j \in Junk}) :
            Call("chained_read", ws, 0, r.err,
                 [Members EXCEPT !.cursor = r.cursor], 0, r.vals, <<>>, r.acc)

\* read(dest, len) copying the bytes that are left before it tests len
read_copy_first(len) ==
    IF RawPastEnd(len)
    THEN Call("read", len, 0, attempt_to_read_past_end, Members, 0, <<>>,
              [i \in 1 .. PtrDiff(buf_end, cursor) |-> At(cursor, i - 1, 0)],
              {})
    ELSE \E j \in JunkAt({PtrAdd(cursor, i - 1) : i \in 1 .. len}) :
         Call("read", len, 0, 0,
              [Members EXCEPT !.cursor = PtrAdd(cursor, len)],
              0, <<>>, [i \in 1 .. len |-> At(cursor, i - 1, j)],
              {PtrAdd(cursor, i - 1) : i \in 1 .. len})

\* bytefluo::read(dest, len)
read(len) ==
    IF RawPastEnd(len)
    THEN Throw("read", len, 0, attempt_to_read_past_end)
    ELSE \E j \in JunkAt({PtrAdd(cursor, i - 1) : i \in 1 .. len}) :
         Call("read", len, 0, 0,
              [Members EXCEPT !.cursor = PtrAdd(cursor, len)],
              0, <<>>, [i \in 1 .. len |-> At(cursor, i - 1, j)],
              {PtrAdd(cursor, i - 1) : i \in 1 .. len})

\* bytefluo::seek_begin(pos)
seek_begin(pos) ==
    IF SeekBeginBad(pos)
    THEN Throw("seek_begin", pos, 0, attempt_to_seek_after_end)
    ELSE Call("seek_begin", pos, 0, 0,
              [Members EXCEPT !.cursor = PtrAdd(buf_begin, pos)],
              ToSize(PtrDiff(PtrAdd(buf_begin, pos), buf_begin)), <<>>, <<>>, {})

\* bytefluo::seek_current(pos), pos a long
seek_current(pos) ==
    IF pos < 0 /\ SeekBackBad(pos)
    THEN Throw("seek_current", pos, 0, attempt_to_seek_before_beginning)
    ELSE IF ~(pos < 0) /\ SeekForwardBad(pos)
    THEN Throw("seek_current", pos, 0, attempt_to_seek_after_end)
    ELSE Call("seek_current", pos, 0, 0,
              [Members EXCEPT !.cursor = PtrAdd(cursor, pos)],
              ToSize(PtrDiff(PtrAdd(cursor, pos), buf_begin)), <<>>, <<>>, {})

\* seek_end(pos) counting pos from buf_begin
seek_end_from_begin(pos) ==
    IF SeekEndBad(pos)
    THEN Throw("seek_end", pos, 0, attempt_to_seek_before_beginning)
    ELSE Call("seek_end", pos, 0, 0,
              [Members EXCEPT !.cursor = PtrAdd(buf_begin, pos)],
              ToSize(PtrDiff(PtrAdd(buf_begin, pos), buf_begin)), <<>>, <<>>, {})

\* bytefluo::seek_end(pos)
seek_end(pos) ==
    IF SeekEndBad(pos)
    THEN Throw("seek_end", pos, 0, attempt_to_seek_before_beginning)
    ELSE Call("seek_end", pos, 0, 0,
              [Members EXCEPT !.cursor = PtrAdd(buf_end, 0 - pos)],
              ToSize(PtrDiff(PtrAdd(buf_end, 0 - pos), buf_begin)), <<>>, <<>>, {})

\* &vec[0] and &vec[0] + vec.size() for a vector of n items of w bytes each,
\* which the caller keeps in its array: adding to an item_type * counts items
VecBegin == Base
VecEnd_counts_bytes(n, w) == PtrAdd(VecBegin, n)
VecEnd(n, w) == PtrAdd(VecBegin, n * w)

\* bytefluo_from_vector(vec, bo), vec of n items of w bytes each
bytefluo_from_vector(n, w, bo) ==
    IF n = 0
    THEN Construct("bytefluo_from_vector", n, w, bo,
                   IF validate(Null, Null) # 0 THEN validate(Null, Null)
                   ELSE IF BadOrder(bo) THEN invalid_byte_order
                   ELSE 0,
                   [buf_begin |-> Null, buf_end |-> Null, cursor |-> Null,
                    buf_byte_order |-> bo])
    ELSE Construct("bytefluo_from_vector", n, w, bo,
                   IF validate(VecBegin, VecEnd(n, w)) # 0
                   THEN validate(VecBegin, VecEnd(n, w))
                   ELSE IF BadOrder(bo) THEN invalid_byte_order
                   ELSE 0,
                   [buf_begin |-> VecBegin, buf_end |-> VecEnd(n, w),
                    cursor |-> VecBegin, buf_byte_order |-> bo])

\* bytefluo::eos() const, bytefluo::size() const, bytefluo::tellg() const
call_eos == Call("eos", 0, 0, 0, Members, eos, <<>>, <<>>, {})
call_size == Call("size", 0, 0, 0, Members, size, <<>>, <<>>, {})
call_tellg == Call("tellg", 0, 0, 0, Members, tellg, <<>>, <<>>, {})

\* ------------------------------------------------------------ two cursors
\* A step of the caller that is no call of a member function of this cursor:
\* it leaves this cursor the members m and the second cursor the members o.
Plain(name, m, o) ==
    /\ fate = "running"
    /\ op' = [name |-> name, x |-> 0, y |-> 0, z |-> 0]
    /\ pre' = Members
    /\ err' = 0
    /\ buf_begin' = m.buf_begin
    /\ buf_end' = m.buf_end
    /\ cursor' = m.cursor
    /\ buf_byte_order' = m.buf_byte_order
    /\ ret' = 0
    /\ out' = <<>>
    /\ dest' = <<>>
    /\ accessed' = {}
    /\ other' = o
    /\ UNCHANGED <<long_bits, image, fate>>

\* a copy that leaves the target at the start of the range
copy_rewound == Plain("copy", Members, [Members EXCEPT !.cursor = buf_begin])

\* bytefluo other(*this), other = *this: the implicit copy constructor and
\* copy assignment copy each member
copy == Plain("copy", Members, Members)

\* *this = other
assign == Plain("operator=", other, other)

\* going on with the second cursor, but at the position of this one
turn_shares_position ==
    Plain("turn", [other EXCEPT !.cursor = cursor], Members)

\* the caller goes on with its second cursor: from here on the calls are
\* made on what was the second cursor, and this cursor is the second one
turn == Plain("turn", other, Members)

\* ------------------------------------------------------------- the caller
\* pointers the caller passes: null, and into (or one past) its array
Ptrs == {Null, Base, Base + 1, Base + DataLen - 1, Base + DataLen}
\* byte orders the caller passes
Orders == {big, little, bad_byte_order}
\* sizeof(scalar_type) of the supported scalar types
Widths == {1, 2, 4, 8}
\* size_t arguments: every small one, and the largest ones
Sizes == (0 .. (DataLen + 1)) \cup {PtrdiffMax, PtrdiffMax + 1, SizeMax - 1, SizeMax}
\* long arguments: every small one, and LONG_MIN, LONG_MIN/2, LONG_MAX/2, LONG_MAX
Deltas == {d \in ((0 - DataLen - 1) .. (DataLen + 1))
                 \cup {LongMin, LongMin \div 2, LongMax \div 2, LongMax} :
           LongMin <= d /\ d <= LongMax}

\* bytefluo::bytefluo(): the empty range [0, 0), big-endian
Init ==
    /\ long_bits \in LongWidths
    /\ image \in 1 .. NumImages
    /\ buf_begin = Null
    /\ buf_end = Null
    /\ cursor = Null
    /\ buf_byte_order = big
    /\ fate = "running"
    /\ op = [name |-> "bytefluo()", x |-> 0, y |-> 0, z |-> 0]
    /\ pre = [buf_begin |-> Null, buf_end |-> Null, cursor |-> Null,
              buf_byte_order |-> big]
    /\ err = 0
    /\ ret = 0
    /\ out = <<>>
    /\ dest = <<>>
    /\ accessed = {}
    /\ other = [buf_begin |-> Null, buf_end |-> Null, cursor |-> Null,
                buf_byte_order |-> big]

Next ==
    \/ bytefluo_default
    \/ \E b \in Ptrs, e \in Ptrs, bo \in Orders : bytefluo(b, e, bo)
    \/ \E b \in Ptrs, e \in Ptrs : set_data_range(b, e)
    \/ \E bo \in Orders : set_byte_order(bo)
    \/ \E n \in Widths, s \in {0, 1} : read_scalar(n, s)
    \/ \E len \in Sizes : read(len)
    \/ \E pos \in Sizes : seek_begin(pos)
    \/ \E pos \in Deltas : seek_current(pos)
    \/ \E pos \in Sizes : seek_end(pos)
    \/ call_eos
    \/ call_size
    \/ call_tellg

Spec == Init /\ [][Next]_vars

\* ---------------------------------------------- the caller with a vector
\* the caller views vectors of every length that fits its array and reads
NextVector ==
    \/ \E w \in Widths, bo \in Orders :
          \E n \in 0 .. (DataLen \div w) : bytefluo_from_vector(n, w, bo)
    \/ \E n \in Widths, s \in {0, 1} : read_scalar(n, s)
    \/ \E len \in 0 .. (DataLen + 1) : read(len)
    \/ call_eos
    \/ call_size
    \/ call_tellg

SpecVector == Init /\ [][NextVector]_vars

\* ------------------------------------------ the caller with chained reads
\* sizeof of the types the caller chains: uint8_t, uint16_t, uint32_t
ChainWidths == {1, 2, 4}
\* the chains of n reads
Chains(n) == [1 .. n -> ChainWidths]

\* raw_data and raw_data + sizeof(raw_data) of the tests, and null
ChainPtrs == {Null, Base, Base + raw_data_len}

\* the caller views its raw_data, reads in chains and rewinds
NextChain ==
    \/ \E b \in ChainPtrs, e \in ChainPtrs, bo \in Orders : bytefluo(b, e, bo)
    \/ \E n \in 1 .. MaxChain : \E ws \in Chains(n) : chained_read(ws)
    \/ seek_begin(0)

SpecChain == Init /\ [][NextChain]_vars

\* -------------------------------------------- the caller with two cursors
\* pointers, sizes, deltas and widths of the caller that uses two cursors
CopyPtrs == {Null, Base, Base + CopyLen}
CopySizes == 0 .. (CopyLen + 1)
CopyDeltas == (0 - 1) .. 1
CopyWidths == {1, 2}

NextCopy ==
    \/ copy
    \/ assign
    \/ turn
    \/ bytefluo_default
    \/ \E b \in CopyPtrs, e \in CopyPtrs, bo \in Orders : bytefluo(b, e, bo)
    \/ \E b \in CopyPtrs, e \in CopyPtrs : set_data_range(b, e)
    \/ \E bo \in Orders : set_byte_order(bo)
    \/ \E n \in CopyWidths, s \in {0, 1} : read_scalar(n, s)
    \/ \E len \in CopySizes : read(len)
    \/ \E pos \in CopySizes : seek_begin(pos)
    \/ \E pos \in CopyDeltas : seek_current(pos)
    \/ \E pos \in CopySizes : seek_end(pos)

SpecCopy == Init /\ [][NextCopy]_vars

\* ----------------------------------------------------------------- claims
\* the last call was the named operation
Called(name) == op.name = name
\* the last call threw e and left the four members as they were
Failed(e) == err = e /\ Members = pre
\* end - position and end - begin when the last call began
PreRemaining == pre.buf_end - pre.cursor
PreSize == pre.buf_end - pre.buf_begin
\* the addresses of the viewed bytes [begin, end) when the last call began
Viewed == {a \in Addr : pre.buf_begin <= a /\ a < pre.buf_end}
\* b[k]: the byte of the caller's array k bytes after the position at which
\* the last call began
PreByte(k) == Image(image, pre.cursor + k - Base)

\* C1: every byte a call loads lies in [begin, end), and a read that would
\* need a byte outside [begin, end) loads no byte and throws
\* attempt_to_read_past_end.
C1_MemoryAccessSafety ==
    /\ accessed \subseteq Viewed
    /\ (Called("operator>>") \/ Called("read")) /\ op.x > PreRemaining
          => accessed = {} /\ err = attempt_to_read_past_end

\* C2: after any sequence of calls that leaves a cursor to look at,
\* begin <= position <= end, 0 <= tellg() <= size() and end >= begin.
C2_PositionInvariant ==
    fate \in {"running", "undefined"} =>
        /\ buf_begin <= cursor /\ cursor <= buf_end
        /\ tellg <= size

\* C3: a scalar read of N bytes with end - position < N throws
\* attempt_to_read_past_end and leaves position, begin, end and byte order as
\* they were, so that every narrower read that still fits passes its range
\* test at the same position.
C3_ScalarReadFailure ==
    Called("operator>>") /\ PreRemaining < op.x =>
        /\ Failed(attempt_to_read_past_end)
        /\ fate = "running"
        /\ out = <<>> /\ accessed = {}
        /\ \A m \in Widths : m <= PreRemaining => ~PastEnd(m)

\* a 4-byte read failed three bytes before the end, where a 2-byte read fits
C3_Witness ==
    /\ Called("operator>>") /\ op.x = 4 /\ PreRemaining = 3
    /\ err = attempt_to_read_past_end
    /\ ~PastEnd(2)

\* C4: read(dest, len) with len > end - position, for every len a size_t
\* holds, throws attempt_to_read_past_end, copies nothing and leaves the
\* position as it was.
C4_RawReadPastEnd ==
    Called("read") /\ op.x > PreRemaining =>
        /\ Failed(attempt_to_read_past_end)
        /\ dest = <<>> /\ accessed = {}

\* the least significant byte first, the N bytes of
\* b[0]<<(8*(N-1)) | ... | b[N-1] (big) and of b[N-1]<<(8*(N-1)) | ... | b[0]
\* (little): the byte of weight 2^(8*(i-1)) is b[N-i], respectively b[i-1]
Expected(n, bo) ==
    [i \in 1 .. n |-> IF bo = big THEN PreByte(n - i) ELSE PreByte(i - 1)]

\* C5: a successful unsigned read of N = 2, 4 or 8 bytes b[0..N-1] returns
\* b[0]<<(8*(N-1)) | ... | b[N-1] when the order is big and
\* b[N-1]<<(8*(N-1)) | ... | b[0] when it is little, and advances the
\* position by exactly N.
C5_ScalarDecode ==
    Called("operator>>") /\ op.x \in {2, 4, 8} /\ op.y = 0 /\ err = 0 =>
        /\ out = [neg |-> FALSE, mag |-> Expected(op.x, pre.buf_byte_order)]
        /\ op.x = 2 =>
              out.mag[1] + Pow2(CHAR_BIT) * out.mag[2]
                = IF pre.buf_byte_order = big
                  THEN PreByte(0) * Pow2(CHAR_BIT) + PreByte(1)
                  ELSE PreByte(1) * Pow2(CHAR_BIT) + PreByte(0)
        /\ cursor = pre.cursor + op.x
        /\ Members = [pre EXCEPT !.cursor = cursor]

\* a little-endian uint64_t was read from eight bytes that all differ
C5_Witness ==
    /\ Called("operator>>") /\ op.x = 8 /\ op.y = 0 /\ err = 0
    /\ pre.buf_byte_order = little
    /\ Cardinality({out.mag[i] : i \in 1 .. 8}) = 8
    /\ out.mag[8] = PreByte(7) /\ out.mag[1] = PreByte(0)

\* the top bit of an N-byte pattern
TopBit(u) == u[Len(u)] \div Pow2(CHAR_BIT - 1)
\* the value of a pattern of at most two bytes
Small(u) == IF Len(u) = 1 THEN u[1] ELSE u[1] + Pow2(CHAR_BIT) * u[2]

\* C6: a read into a signed N-byte integer yields the two's-complement
\* reading of the value u an unsigned N-byte read returns at the same
\* position: u when u < 2^(8N-1), and u - 2^(8N) otherwise (a negative value
\* whose magnitude m satisfies m + u = 2^(8N)).
C6_SignedDecode ==
    Called("operator>>") /\ op.y = 1 /\ err = 0 =>
        LET u == Decode(op.x, pre.cursor, pre.buf_byte_order, FALSE, 0).mag IN
        /\ TopBit(u) = 0 => out = [neg |-> FALSE, mag |-> u]
        /\ TopBit(u) = 1 =>
              /\ out.neg
              /\ Add(out.mag, u) = [i \in 1 .. op.x |-> 0]
              /\ Carry(out.mag, u, op.x) = 1
        /\ op.x <= 2 =>
              (IF out.neg THEN 0 - Small(out.mag) ELSE Small(out.mag))
                = IF Small(u) < Pow2(CHAR_BIT * op.x - 1)
                  THEN Small(u) ELSE Small(u) - Pow2(CHAR_BIT * op.x)

\* the tests' int16_t: bytes AA BB read little-endian give -17494
C6_Witness ==
    /\ Called("operator>>") /\ op.x = 2 /\ op.y = 1 /\ err = 0
    /\ pre.buf_byte_order = little
    /\ PreByte(0) = 170 /\ PreByte(1) = 187
    /\ out.neg /\ Small(out.mag) = 17494

\* C7: with a byte left, a 1-byte read returns the byte at the position and
\* advances the position by 1, whatever the byte order.
C7_ByteRead ==
    Called("operator>>") /\ op.x = 1 /\ PreRemaining >= 1 =>
        /\ err = 0
        /\ (IF out.neg THEN Negate(out.mag) ELSE out.mag) = <<PreByte(0)>>
        /\ op.y = 0 => ~out.neg
        /\ cursor = pre.cursor + 1
        /\ Members = [pre EXCEPT !.cursor = cursor]

\* a uint8_t was read under the little byte order, two bytes before the end
C7_Witness ==
    /\ Called("operator>>") /\ op.x = 1 /\ op.y = 0 /\ err = 0
    /\ pre.buf_byte_order = little /\ PreRemaining = 2
    /\ out.mag = <<PreByte(0)>> /\ PreByte(0) # PreByte(1)

\* C8: read(dest, len) with len <= end - position copies the bytes at offsets
\* position .. position+len-1 into dest in memory order, whatever the byte
\* order, and advances the position by exactly len.
C8_RawReadSuccess ==
    Called("read") /\ op.x <= PreRemaining =>
        /\ err = 0 /\ fate = "running"
        /\ dest = [i \in 1 .. op.x |-> PreByte(i - 1)]
        /\ accessed = {pre.cursor + i - 1 : i \in 1 .. op.x}
        /\ cursor = pre.cursor + op.x
        /\ Members = [pre EXCEPT !.cursor = cursor]

\* three bytes were copied up to the very end under the little byte order
C8_Witness ==
    /\ Called("read") /\ op.x = 3 /\ PreRemaining = 3 /\ err = 0
    /\ pre.buf_byte_order = little
    /\ dest = <<PreByte(0), PreByte(1), PreByte(2)>> /\ eos

\* C9: seek_begin(offset) succeeds iff offset <= size(); it then sets the
\* position to begin + offset and returns offset; otherwise, also for the
\* largest offsets, it throws attempt_to_seek_after_end.
C9_SeekBegin ==
    Called("seek_begin") =>
        /\ err = 0 <=> op.x <= PreSize
        /\ err = 0 =>
              /\ cursor = pre.buf_begin + op.x /\ ret = op.x
              /\ Members = [pre EXCEPT !.cursor = cursor]
        /\ err # 0 => Failed(attempt_to_seek_after_end)

\* seek_begin(size_t(-1)) was refused on a range that is not empty
C9_Witness ==
    /\ Called("seek_begin") /\ op.x = SizeMax /\ PreSize > 0
    /\ err = attempt_to_seek_after_end

\* C10: seek_end(offset) succeeds iff offset <= size(); it then sets the
\* position to end - offset and returns size() - offset; otherwise, also for
\* the largest offsets, it throws attempt_to_seek_before_beginning.
C10_SeekEnd ==
    Called("seek_end") =>
        /\ err = 0 <=> op.x <= PreSize
        /\ err = 0 =>
              /\ cursor = pre.buf_end - op.x /\ ret = PreSize - op.x
              /\ Members = [pre EXCEPT !.cursor = cursor]
        /\ err # 0 => Failed(attempt_to_seek_before_beginning)

\* seek_end(size_t(-1)) was refused on a range that is not empty
C10_Witness ==
    /\ Called("seek_end") /\ op.x = SizeMax /\ PreSize > 0
    /\ err = attempt_to_seek_before_beginning

\* position - begin when the last call began
PreTell == pre.cursor - pre.buf_begin
\* position + delta for the seek_current(delta) that was the last call
Target == pre.cursor + op.x

\* C11: seek_current(delta) throws attempt_to_seek_before_beginning if
\* position + delta < begin and attempt_to_seek_after_end if
\* position + delta > end, leaving the position; for every other delta it
\* sets the position to position + delta and returns tellg() + delta.
C11_SeekCurrent ==
    Called("seek_current") =>
        /\ Target < pre.buf_begin => Failed(attempt_to_seek_before_beginning)
        /\ Target > pre.buf_end => Failed(attempt_to_seek_after_end)
        /\ pre.buf_begin <= Target /\ Target <= pre.buf_end =>
              /\ err = 0
              /\ cursor = Target /\ ret = PreTell + op.x
              /\ Members = [pre EXCEPT !.cursor = Target]

\* the four deltas at and near the limits of long
ExtremeForward == {LongMax, LongMax \div 2}
ExtremeBack == {LongMin, LongMin \div 2}

\* C12 as stated: in every cursor state seek_current rejects LONG_MAX and
\* LONG_MAX/2 with attempt_to_seek_after_end and LONG_MIN and LONG_MIN/2
\* with attempt_to_seek_before_beginning, leaving the position.
C12_ExtremeDeltasAlwaysRejected ==
    Called("seek_current") =>
        /\ op.x \in ExtremeForward => Failed(attempt_to_seek_after_end)
        /\ op.x \in ExtremeBack => Failed(attempt_to_seek_before_beginning)

\* C12: seek_current rejects LONG_MAX and LONG_MAX/2 with
\* attempt_to_seek_after_end whenever position + delta > end, and LONG_MIN
\* and LONG_MIN/2 with attempt_to_seek_before_beginning whenever
\* position + delta < begin, also where position + delta is not an address;
\* the position is left as it was.
C12_ExtremeDeltas ==
    Called("seek_current") =>
        /\ op.x \in ExtremeForward /\ Target > pre.buf_end =>
              Failed(attempt_to_seek_after_end)
        /\ op.x \in ExtremeBack /\ Target < pre.buf_begin =>
              Failed(attempt_to_seek_before_beginning)

\* seek_current(LONG_MIN) was refused where position + LONG_MIN, taken as a
\* pointer, would have wrapped to an address above begin
C12_Witness ==
    /\ Called("seek_current") /\ op.x = LongMin /\ long_bits = WordBits
    /\ pre.buf_begin # Null
    /\ Target < 0 /\ PtrAdd(pre.cursor, op.x) > pre.buf_begin
    /\ err = attempt_to_seek_before_beginning

\* the last call was one of the three seeks
CalledSeek == Called("seek_begin") \/ Called("seek_current") \/ Called("seek_end")
\* what seek_current(0) and tellg() would return in the current state, 0 - 1
\* for a seek_current(0) that would throw
SeekCurrent0 ==
    IF SeekForwardBad(0) THEN 0 - 1
    ELSE ToSize(PtrDiff(PtrAdd(cursor, 0), buf_begin))

\* C13: when seek_begin, seek_end or seek_current throws, position, begin,
\* end and byte order are what they were before the call, and a following
\* seek_current(0) or tellg() returns the offset the position had before it.
C13_SeekFailureKeepsState ==
    CalledSeek /\ err # 0 =>
        /\ Members = pre
        /\ tellg = PreTell
        /\ SeekCurrent0 = PreTell

\* C14: seek_current(0), seek_begin(tellg()) and seek_end(size() - tellg())
\* succeed in every state, leave the four members as they were and return
\* tellg(); the state they leave is one where they do so again.
C14_SeekIdempotence ==
    \/ Called("seek_current") /\ op.x = 0
    \/ Called("seek_begin") /\ op.x = PreTell
    \/ Called("seek_end") /\ op.x = PreSize - PreTell
    => /\ err = 0
       /\ Members = pre
       /\ ret = PreTell
       /\ ~SeekForwardBad(0)
       /\ ~SeekBeginBad(tellg) /\ PtrAdd(buf_begin, tellg) = cursor
       /\ ~SeekEndBad(size - tellg) /\ PtrAdd(buf_end, 0 - (size - tellg)) = cursor

\* C15: set_data_range(begin, end) with exactly one of begin and end null, or
\* with end < begin, throws the error of that case and leaves begin, end,
\* position and byte order as they were.
C15_SetDataRangeFailure ==
    Called("set_data_range") =>
        /\ op.x = Null /\ op.y # Null => Failed(null_begin_non_null_end)
        /\ op.x # Null /\ op.y = Null => Failed(null_end_non_null_begin)
        /\ op.x # Null /\ op.y # Null /\ op.y < op.x => Failed(end_precedes_begin)

\* set_data_range threw end_precedes_begin on a little-endian cursor that
\* stood inside its range
C15_Witness ==
    /\ Called("set_data_range") /\ err = end_precedes_begin
    /\ pre.buf_begin < pre.cursor /\ pre.cursor < pre.buf_end
    /\ pre.buf_byte_order = little
    /\ op.x # pre.buf_begin /\ op.y # pre.buf_end

\* begin and end are both null, or neither is and begin <= end
ValidRange(begin, end) ==
    \/ begin = Null /\ end = Null
    \/ begin # Null /\ end # Null /\ begin <= end

\* C16: set_data_range(begin, end) with a valid pair succeeds, replaces begin
\* and end, puts the position at the new begin (tellg() = 0,
\* size() = end - begin, eos() iff begin = end) and keeps the byte order.
C16_SetDataRangeSuccess ==
    Called("set_data_range") /\ ValidRange(op.x, op.y) =>
        /\ err = 0 /\ fate = "running"
        /\ buf_begin = op.x /\ buf_end = op.y /\ cursor = op.x
        /\ tellg = 0 /\ size = op.y - op.x
        /\ eos <=> op.x = op.y
        /\ buf_byte_order = pre.buf_byte_order

\* a little-endian cursor standing inside its range was given another range
C16_Witness ==
    /\ Called("set_data_range") /\ err = 0
    /\ pre.buf_begin < pre.cursor /\ pre.buf_byte_order = little
    /\ op.x # pre.buf_begin /\ op.x # pre.cursor /\ op.x < op.y

\* C17: bytefluo(begin, end, order) throws null_begin_non_null_end if begin
\* is null and end is not, null_end_non_null_begin if end is null and begin
\* is not, end_precedes_begin if end < begin, and invalid_byte_order if the
\* range is valid and order is neither big nor little; there is no cursor
\* after any of them.
C17_ConstructionFailure ==
    Called("bytefluo") =>
        /\ op.x = Null /\ op.y # Null => err = null_begin_non_null_end
        /\ op.x # Null /\ op.y = Null => err = null_end_non_null_begin
        /\ op.x # Null /\ op.y # Null /\ op.y < op.x => err = end_precedes_begin
        /\ ValidRange(op.x, op.y) /\ op.z \notin {big, little} =>
              err = invalid_byte_order
        /\ err # 0 => fate = "no cursor"

\* a constructor given an inverted range and a bad byte order threw
\* end_precedes_begin
C17_Witness ==
    /\ Called("bytefluo") /\ op.y < op.x /\ op.y # Null
    /\ op.z = bad_byte_order
    /\ err = end_precedes_begin /\ fate = "no cursor"

\* C18: bytefluo(begin, end, order) with a valid range and order big or
\* little makes a cursor with size() = end - begin, tellg() = 0, position =
\* begin, byte order = order, and eos() iff begin = end.
C18_ConstructionSuccess ==
    Called("bytefluo") /\ ValidRange(op.x, op.y) /\ op.z \in {big, little} =>
        /\ err = 0 /\ fate = "running"
        /\ buf_begin = op.x /\ buf_end = op.y
        /\ size = op.y - op.x /\ tellg = 0 /\ cursor = op.x
        /\ buf_byte_order = op.z
        /\ eos <=> op.x = op.y

\* a little-endian cursor was constructed on a range that is not empty
C18_Witness ==
    /\ Called("bytefluo") /\ op.x # Null /\ op.x < op.y /\ op.z = little
    /\ err = 0 /\ size > 1 /\ ~eos

\* the members bytefluo() leaves
DefaultMembers == [buf_begin |-> Null, buf_end |-> Null, cursor |-> Null,
                   buf_byte_order |-> big]

\* C19: bytefluo() leaves the state bytefluo(null, null, big) leaves: size()
\* = 0, tellg() = 0, eos(); in it every scalar read throws
\* attempt_to_read_past_end, seek_begin(1) and seek_current(1) throw
\* attempt_to_seek_after_end and seek_end(1) throws
\* attempt_to_seek_before_beginning.
C19_DefaultCursor ==
    /\ \/ Called("bytefluo()")
       \/ Called("bytefluo") /\ op.x = Null /\ op.y = Null /\ op.z = big
       => /\ err = 0 /\ fate = "running"
          /\ Members = DefaultMembers
          /\ size = 0 /\ tellg = 0 /\ eos
    /\ pre = DefaultMembers =>
          /\ Called("operator>>") => Failed(attempt_to_read_past_end)
          /\ Called("seek_begin") /\ op.x = 1 => Failed(attempt_to_seek_after_end)
          /\ Called("seek_current") /\ op.x = 1 => Failed(attempt_to_seek_after_end)
          /\ Called("seek_end") /\ op.x = 1 =>
                Failed(attempt_to_seek_before_beginning)

\* seek_end(1) was refused in the state bytefluo() leaves
C19_Witness ==
    /\ Called("seek_end") /\ op.x = 1 /\ pre = DefaultMembers
    /\ err = attempt_to_seek_before_beginning
    /\ size = 0 /\ tellg = 0 /\ eos

\* the scalars a read of n bytes ending at address a returns under order bo
ReadEndingAt(a, n, bo) == {Decode(n, a - n, bo, sg, 0) : sg \in BOOLEAN}

\* C20: set_byte_order(order) with an order that is neither big nor little
\* throws invalid_byte_order and the byte order stays; with big or little it
\* succeeds and changes the byte order only.  A scalar read decodes with the
\* order in effect when it is called, and a scalar read right before a
\* set_byte_order keeps the value it was decoded to.
C20_SetByteOrder ==
    /\ Called("set_byte_order") =>
          /\ op.x \notin {big, little} => Failed(invalid_byte_order)
          /\ op.x \in {big, little} =>
                /\ err = 0
                /\ Members = [pre EXCEPT !.buf_byte_order = op.x]
          /\ out # <<>> =>
                out \in ReadEndingAt(cursor, Len(out.mag), pre.buf_byte_order)
    /\ Called("operator>>") /\ err = 0 /\ op.y = 0 =>
          out.mag = Expected(op.x, pre.buf_byte_order)

\* a 4-byte scalar read as big-endian kept its value when the order was set
\* to little, though the four bytes read as little-endian are another value
C20_Witness ==
    /\ Called("set_byte_order") /\ op.x = little /\ err = 0
    /\ pre.buf_byte_order = big /\ buf_byte_order = little
    /\ out # <<>> /\ Len(out.mag) = 4
    /\ out \notin ReadEndingAt(cursor, 4, little)

\* the last call was a scalar read or a raw read
CalledRead == Called("operator>>") \/ Called("read")

\* C21: a successful read of n bytes moves tellg() up by n, so reads from
\* begin that consume size() bytes in all end with eos() and eos() is false
\* while fewer are consumed; with eos(), every read of one byte or more
\* throws attempt_to_read_past_end.
C21_EndOfStream ==
    /\ CalledRead /\ err = 0 /\ fate = "running" =>
          /\ tellg = PreTell + op.x
          /\ eos <=> PreTell + op.x = PreSize
    /\ CalledRead /\ pre.cursor = pre.buf_end /\ op.x >= 1 =>
          Failed(attempt_to_read_past_end)

\* the names of the caller's steps that are no call on this cursor
TwoCursorSteps == {"copy", "operator=", "turn"}

\* C22: a copy gives the second cursor this cursor's begin, end, position
\* and byte order of that moment, an assignment gives this cursor the second
\* one's; every call made on one cursor (a read, a seek, set_byte_order,
\* set_data_range) leaves the members of the other one as they were.
C22_Step ==
    /\ op'.name = "copy" => other' = Members /\ Members' = Members
    /\ op'.name = "operator=" => Members' = other /\ other' = other
    /\ op'.name = "turn" => Members' = other /\ other' = Members
    /\ op'.name \notin TwoCursorSteps => other' = other

C22_CopyIndependence == [][C22_Step]_vars

\* after a copy taken inside a range, a read moved this cursor on and the
\* copy still has the position and the range of the moment it was taken
C22_Witness ==
    /\ Called("operator>>") /\ err = 0
    /\ other = pre /\ other.cursor > other.buf_begin
    /\ cursor # other.cursor

\* C23: eos(), size() and tellg() return in every state, the default empty
\* cursor's too, and change no member; eos() is position = end, size() is
\* end - begin and tellg() is position - begin, so eos() holds exactly when
\* tellg() = size().
C23_Introspection ==
    /\ Called("eos") \/ Called("size") \/ Called("tellg") =>
          /\ err = 0 /\ fate = "running"
          /\ Members = pre
    /\ Called("eos") => (ret <=> pre.cursor = pre.buf_end)
    /\ Called("size") => ret = PreSize
    /\ Called("tellg") => ret = PreTell
    /\ fate = "running" => (eos <=> tellg = size)

\* tellg() returned an offset inside a range that is not empty
C23_Witness ==
    /\ Called("tellg") /\ ret > 0 /\ ret < PreSize
    /\ ~eos /\ tellg = ret

\* C24: scalar reads, raw reads, the three seeks and set_byte_order leave
\* begin and end, so size(), as they were; reads, seeks and set_data_range
\* leave the byte order; set_byte_order leaves the position.
C24_MutatorFrame ==
    /\ CalledRead \/ CalledSeek \/ Called("set_byte_order") =>
          /\ buf_begin = pre.buf_begin /\ buf_end = pre.buf_end
          /\ size = ToSize(PreSize)
    /\ CalledRead \/ CalledSeek \/ Called("set_data_range") =>
          buf_byte_order = pre.buf_byte_order
    /\ Called("set_byte_order") => cursor = pre.cursor

\* set_data_range gave a little-endian cursor a range of another size
C24_Witness ==
    /\ Called("set_data_range") /\ err = 0
    /\ pre.buf_byte_order = little /\ buf_byte_order = little
    /\ size # ToSize(PreSize) /\ size > 0 /\ PreSize > 0

\* C25: bytefluo_from_vector on n items of w bytes and a valid byte order
\* makes a cursor with size() = n * w and tellg() = 0 whose bytes are the
\* items' bytes in memory order, so that a raw read from its first position
\* returns them in that order; for n = 0 it makes the (null, null) cursor
\* with size() = 0 and eos(), and throws nothing.
C25_FromVector ==
    /\ Called("bytefluo_from_vector") /\ op.z \in {big, little} =>
          /\ err = 0 /\ fate = "running"
          /\ size = op.x * op.y /\ tellg = 0
          /\ buf_byte_order = op.z
          /\ \A k \in 0 .. (op.x * op.y - 1) :
                /\ PtrAdd(cursor, k) \in DataAddr
                /\ At(cursor, k, 0) = Image(image, k)
          /\ op.x = 0 => buf_begin = Null /\ buf_end = Null /\ eos
    /\ Called("read") /\ err = 0 /\ pre.cursor = VecBegin /\ fate = "running" =>
          \A i \in 1 .. op.x : dest[i] = Image(image, i - 1)

\* a cursor was made from two items of four bytes each
C25_Witness ==
    /\ Called("bytefluo_from_vector") /\ op.x = 2 /\ op.y = 4 /\ op.z = little
    /\ err = 0 /\ size = 8 /\ tellg = 0 /\ ~eos

\* the functions that make a cursor
Makers == {"bytefluo()", "bytefluo", "bytefluo_from_vector"}

\* C26: a call on a cursor that throws leaves begin, end, position and byte
\* order as they were, loads no byte and writes nothing to the caller, so
\* the calls after it find the state the calls before it left, and a run
\* without the failed calls gives every other call the same result.
C26_FailedCallsAreNoOps ==
    err # 0 /\ op.name \notin Makers =>
        /\ Members = pre
        /\ fate = "running"
        /\ accessed = {} /\ dest = <<>> /\ ret = 0
        /\ Called("operator>>") => out = <<>>

\* a raw read failed at a position inside the range and left it there
C26_Witness ==
    /\ Called("read") /\ err = attempt_to_read_past_end
    /\ pre.buf_begin < pre.cursor /\ pre.cursor < pre.buf_end
    /\ cursor = pre.cursor

\* C27: no step writes the viewed bytes.  With two cursors over the same
\* bytes a call on one leaves the other's members as they were, and going
\* from one cursor to the other finds each as its own last call left it; so
\* the result of every seek and read is the one the cursor's own members
\* and the bytes determine, as when the cursor is used alone.
C27_Step ==
    /\ image' = image
    /\ op'.name \notin TwoCursorSteps => other' = other
    /\ op'.name = "turn" => Members' = other /\ other' = Members

C27_ConcurrentViewers ==
    /\ [][C27_Step]_vars
    /\ [](/\ C3_ScalarReadFailure /\ C5_ScalarDecode /\ C7_ByteRead
          /\ C8_RawReadSuccess /\ C9_SeekBegin /\ C10_SeekEnd)

\* two cursors over the same bytes stand at different positions, each where
\* its own reads left it
C27_Witness ==
    /\ Called("operator>>") /\ err = 0
    /\ other.buf_begin = buf_begin /\ other.buf_end = buf_end
    /\ other.cursor > other.buf_begin
    /\ other.cursor # pre.cursor /\ other.cursor # cursor

\* the state (begin, end, position = begin, order)
Fresh(begin, end, order) ==
    [buf_begin |-> begin, buf_end |-> end, cursor |-> begin,
     buf_byte_order |-> order]

\* C28: for a valid (begin, end) and order big or little, bytefluo() leaves
\* (null, null, null, big), set_data_range(begin, end) then leaves (begin,
\* end, begin, big) and set_byte_order(order) then leaves (begin, end, begin,
\* order), the very state bytefluo(begin, end, order) leaves.
C28_TwoConstructionPaths ==
    /\ Called("bytefluo()") => Members = Fresh(Null, Null, big)
    /\ Called("set_data_range") /\ pre = Fresh(Null, Null, big)
          /\ ValidRange(op.x, op.y) =>
          err = 0 /\ Members = Fresh(op.x, op.y, big)
    /\ Called("set_byte_order") /\ pre = Fresh(pre.buf_begin, pre.buf_end, big)
          /\ op.x \in {big, little} =>
          err = 0 /\ Members = Fresh(pre.buf_begin, pre.buf_end, op.x)
    /\ Called("bytefluo") /\ ValidRange(op.x, op.y) /\ op.z \in {big, little} =>
          err = 0 /\ fate = "running" /\ Members = Fresh(op.x, op.y, op.z)

\* set_byte_order(little) on a big-endian cursor at the start of the whole
\* array left the state bytefluo(begin, end, little) leaves
C28_Witness ==
    /\ Called("set_byte_order") /\ op.x = little /\ err = 0
    /\ pre = Fresh(Base, Base + DataLen, big)
    /\ Members = Fresh(Base, Base + DataLen, little)

\* the byte before end when the last call began
PreLastByte == Image(image, pre.buf_end - 1 - Base)

\* C29: on a range of 7 bytes seek_end(0) returns 7 and leaves the position
\* at end, where a scalar read throws attempt_to_read_past_end and leaves
\* it; seek_end(1) returns 6 and leaves the position one byte before end,
\* where a 1-byte read succeeds, returns the last byte and leaves eos().
C29_SeekEndScenario ==
    pre.buf_end - pre.buf_begin = raw_data_len =>
        /\ Called("seek_end") /\ op.x = 0 =>
              err = 0 /\ ret = raw_data_len /\ cursor = pre.buf_end /\ eos
        /\ Called("operator>>") /\ pre.cursor = pre.buf_end =>
              Failed(attempt_to_read_past_end)
        /\ Called("seek_end") /\ op.x = 1 =>
              /\ err = 0 /\ ret = raw_data_len - 1
              /\ cursor = pre.buf_end - 1
              /\ Members = [pre EXCEPT !.cursor = cursor]
        /\ Called("operator>>") /\ op.x = 1 /\ pre.cursor = pre.buf_end - 1 =>
              /\ err = 0 /\ fate = "running"
              /\ op.y = 0 => out = [neg |-> FALSE, mag |-> <<PreLastByte>>]
              /\ Decode(1, pre.cursor, pre.buf_byte_order, op.y = 1, 0) = out
              /\ eos

\* the last byte of the tests' 7-byte raw_data was read and eos() holds
C29_Witness ==
    /\ Called("operator>>") /\ op.x = 1 /\ op.y = 0 /\ err = 0
    /\ PreSize = raw_data_len /\ PreTell = raw_data_len - 1
    /\ out.mag = <<PreLastByte>> /\ eos

\* C30: the byte order stored in every cursor that exists, the one in use
\* and the other one made by copying or assigning, is big or little; a
\* constructor given another value makes no cursor and a set_byte_order
\* given another value throws and keeps the stored one.
C30_ByteOrderInvariant ==
    /\ fate # "no cursor" =>
          /\ buf_byte_order \in {big, little}
          /\ other.buf_byte_order \in {big, little}
    /\ Called("bytefluo") /\ BadOrder(op.z) => fate = "no cursor" /\ err # 0
    /\ Called("set_byte_order") /\ BadOrder(op.x) =>
          /\ err = invalid_byte_order
          /\ buf_byte_order = pre.buf_byte_order

\* a little-endian cursor with a big-endian other one refused a byte order
\* that is neither
C30_Witness ==
    /\ Called("set_byte_order") /\ op.x = bad_byte_order
    /\ err = invalid_byte_order
    /\ buf_byte_order = little /\ other.buf_byte_order = big
    /\ other.buf_begin # Null

\* the sum of the widths of the first k reads of the chain ws
RECURSIVE Sum(_, _)
Sum(ws, k) == IF k = 0 THEN 0 ELSE Sum(ws, k - 1) + ws[k]
\* the first read of the last chain that finds too few bytes left, 0 if
\* every read finds enough
FirstFailing ==
    IF \E k \in 1 .. Len(op.x) : Sum(op.x, k) > PreRemaining
    THEN CHOOSE k \in 1 .. Len(op.x) :
             /\ Sum(op.x, k) > PreRemaining
             /\ \A h \in 1 .. (k - 1) : Sum(op.x, h) <= PreRemaining
    ELSE 0
\* the value of the i-th read of the last chain: the bytes that follow
\* those of the reads before it, put together in the chain's byte order
ChainValue(i) ==
    [neg |-> FALSE,
     mag |-> [b \in 1 .. op.x[i] |->
                 IF pre.buf_byte_order = big
                 THEN PreByte(Sum(op.x, i - 1) + op.x[i] - b)
                 ELSE PreByte(Sum(op.x, i - 1) + b - 1)]]

\* C31: the reads of buf >> v1 >> ... >> vn run left to right on the same
\* cursor.  When all find enough bytes, each vi is decoded from the bytes
\* after those of the reads before it.  When the k-th is the first that
\* does not, the chain throws attempt_to_read_past_end, v1..v(k-1) hold
\* their decoded values, the position is up by the sum of the first k-1
\* widths, and vk..vn are not assigned.
C31_ChainedReads ==
    Called("chained_read") =>
        /\ fate = "running"
        /\ Len(out) = Len(op.x)
        /\ Members = [pre EXCEPT !.cursor = cursor]
        /\ FirstFailing = 0 =>
              /\ err = 0
              /\ cursor = pre.cursor + Sum(op.x, Len(op.x))
              /\ \A i \in 1 .. Len(op.x) : out[i] = ChainValue(i)
        /\ FirstFailing # 0 =>
              /\ err = attempt_to_read_past_end
              /\ cursor = pre.cursor + Sum(op.x, FirstFailing - 1)
              /\ \A i \in 1 .. (FirstFailing - 1) : out[i] = ChainValue(i)
              /\ \A i \in FirstFailing .. Len(op.x) : out[i] = <<>>

\* on the tests' seven bytes, big-endian, from the start: a uint32_t and a
\* uint16_t were read and the uint16_t after them was not, one byte
\* before the end
C31_Witness ==
    /\ Called("chained_read") /\ op.x = <<4, 2, 2>>
    /\ PreSize = raw_data_len /\ PreTell = 0 /\ pre.buf_byte_order = big
    /\ image = 1
    /\ err = attempt_to_read_past_end
    /\ out = <<[neg |-> FALSE, mag |-> <<204, 187, 170, 153>>],
               [neg |-> FALSE, mag |-> <<238, 221>>], <<>>>>
    /\ tellg = 6

\* the calls that move the position other than by reading
Repositioning == {"seek_begin", "seek_current", "seek_end", "set_data_range"}

\* C32: a scalar or raw read that returns never decreases tellg(); with
\* eos() true, every scalar read, every raw read of one byte or more and
\* every set_byte_order leaves eos() true, and eos() turns false on the same
\* cursor only in a seek or a set_data_range.
C32_ReadsMoveForward ==
    fate # "terminated" =>
        /\ CalledRead /\ err = 0 => tellg >= PreTell
        /\ /\ pre.cursor = pre.buf_end
           /\ \/ Called("operator>>")
              \/ Called("read") /\ op.x >= 1
              \/ Called("set_byte_order")
           => eos
        /\ pre.cursor = pre.buf_end /\ ~eos /\ op.name \notin Makers =>
              op.name \in Repositioning

\* C33: a scalar read that throws assigns nothing to the caller's variable
\* and a raw read that throws writes no byte of dest; neither loads a byte.
\* Whenever a read has written to its destination its range test had passed:
\* the call threw nothing, and the bytes written are the ones of the request.
C33_FailedReadsKeepDestination ==
    /\ Called("operator>>") /\ err # 0 =>
          out = <<>> /\ dest = <<>> /\ accessed = {}
    /\ Called("read") /\ err # 0 =>
          dest = <<>> /\ out = <<>> /\ accessed = {}
    /\ Called("operator>>") /\ out # <<>> =>
          /\ err = 0
          /\ ~(PtrDiff(pre.buf_end, pre.cursor) < op.x)
          /\ Len(out.mag) = op.x
    /\ Called("read") /\ dest # <<>> =>
          /\ err = 0
          /\ ~(PtrDiff(pre.buf_end, pre.cursor) < ToSigned(op.x))
          /\ Len(dest) = op.x

\* a raw read of one byte more than the bytes left threw and wrote none of
\* the bytes that were left
C33_Witness ==
    /\ Called("read") /\ err = attempt_to_read_past_end
    /\ PreRemaining >= 2 /\ op.x = PreRemaining + 1
    /\ dest = <<>>

\* the errors validate reports
RangeErrors ==
    {null_begin_non_null_end, null_end_non_null_begin, end_precedes_begin}

\* C34: of several defects in the arguments of bytefluo(begin, end, order)
\* or set_data_range(begin, end) the one tested first is reported: a null
\* begin with a non-null end, then a null end with a non-null begin (which
\* also has end < begin, and is never reported as end_precedes_begin), then
\* end < begin, and only for a valid range a byte order that is neither big
\* nor little.
C34_ErrorPrecedence ==
    Called("bytefluo") \/ Called("set_data_range") =>
        /\ op.x = Null /\ op.y # Null => err = null_begin_non_null_end
        /\ op.x # Null /\ op.y = Null =>
              /\ op.y < op.x
              /\ err = null_end_non_null_begin
        /\ err = end_precedes_begin =>
              op.x # Null /\ op.y # Null /\ op.y < op.x
        /\ ~ValidRange(op.x, op.y) => err \in RangeErrors
        /\ err = invalid_byte_order =>
              /\ Called("bytefluo") /\ op.z \notin {big, little}
              /\ ValidRange(op.x, op.y)

\* a constructor given a null end, a non-null begin and a byte order that
\* is neither big nor little reported the null end
C34_Witness ==
    /\ Called("bytefluo") /\ op.x # Null /\ op.y = Null
    /\ op.z = bad_byte_order
    /\ err = null_end_non_null_begin /\ fate = "no cursor"

\* the last call returned k and left the position k bytes after begin, the
\* other members as they were
SoughtTo(k) ==
    /\ err = 0 /\ ret = k
    /\ Members = [pre EXCEPT !.cursor = pre.buf_begin + k]
\* seek_current(delta) can be called and would not throw in this state
SeekCurrentGoes(delta) ==
    /\ LongMin <= delta /\ delta <= LongMax
    /\ ~(delta < 0 /\ SeekBackBad(delta))
    /\ ~(~(delta < 0) /\ SeekForwardBad(delta))

\* C35: for every k with 0 <= k <= size(), seek_begin(k),
\* seek_end(size() - k) and seek_current(k - tellg()) succeed, return k and
\* leave the position k bytes after begin and nothing else changed; so in
\* every state each of the three seeks reaches every offset in [0, size()].
C35_ThreeSeeksAgree ==
    /\ Called("seek_begin") /\ op.x <= PreSize => SoughtTo(op.x)
    /\ Called("seek_end") /\ op.x <= PreSize => SoughtTo(PreSize - op.x)
    /\ Called("seek_current") /\ 0 <= PreTell + op.x
                              /\ PreTell + op.x <= PreSize =>
          SoughtTo(PreTell + op.x)
    /\ fate = "running" =>
          \A k \in 0 .. size :
              /\ ~SeekBeginBad(k)
              /\ ~SeekEndBad(size - k)
              /\ SeekCurrentGoes(k - tellg)
====
